---- MODULE Spec2Model ----
(***************************************************************************)
(* Model of the p5.js sketch editor: the Editor component (both build      *)
(* variants: the one that fetches /api/generate and normalizes the source  *)
(* before refreshing the preview, and the one that calls the vendor client *)
(* directly), and the /api/generate proxy route.                           *)
(*                                                                         *)
(* JavaScript strings are sequences of one-character strings; a character  *)
(* that cannot be written in a string here is written by its code point.   *)
(***************************************************************************)
EXTENDS Integers, Sequences, FiniteSets, TLC

(***************************************************************************)
(* Character classes of the regular expressions and of String.trim.        *)
(***************************************************************************)

VT == "U+000B"
NBSP == "U+00A0"
BOM == "U+FEFF"
LS == "U+2028"
PS == "U+2029"

\* the Unicode category Zs
SpaceSeparators ==
  {" ", NBSP, "U+1680", "U+2000", "U+2001", "U+2002", "U+2003", "U+2004",
   "U+2005", "U+2006", "U+2007", "U+2008", "U+2009", "U+200A", "U+202F",
   "U+205F", "U+3000"}

\* the characters "." does not match and after which "^" matches under /m
IsLineTerminator(c) == c \in {"\n", "\r", LS, PS}

\* \s, and the characters String.prototype.trim removes: WhiteSpace and
\* LineTerminator
IsSpace(c) ==
  \/ c \in {"\t", VT, "\f", BOM}
  \/ c \in SpaceSeparators
  \/ IsLineTerminator(c)

\* s.slice(i - 1): the suffix of s that starts at the 1-based position i
Slice(s, i) == IF i > Len(s) THEN <<>> ELSE SubSeq(s, i, Len(s))

\* s.startsWith(p, i - 1)
StartsWithAt(s, p, i) ==
  /\ i + Len(p) - 1 <= Len(s)
  /\ \A k \in 1..Len(p) : s[i + k - 1] = p[k]

\* s.indexOf(p, i - 1), 1-based; 0 when p does not occur at or after i
IndexOfFrom(s, p, i) ==
  LET hits == {j \in i..Len(s) : StartsWithAt(s, p, j)}
  IN  IF hits = {} THEN 0 ELSE CHOOSE j \in hits : \A k \in hits : j <= k

\* the first position at or after i that holds no white space
RECURSIVE SkipSpaces(_, _)
SkipSpaces(s, i) ==
  IF i <= Len(s) /\ IsSpace(s[i]) THEN SkipSpaces(s, i + 1) ELSE i

\* the last position at or before i that holds no white space
RECURSIVE SkipSpacesBack(_, _)
SkipSpacesBack(s, i) ==
  IF i >= 1 /\ IsSpace(s[i]) THEN SkipSpacesBack(s, i - 1) ELSE i

\* String.prototype.trim
Trim(s) == SubSeq(s, SkipSpaces(s, 1), SkipSpacesBack(s, Len(s)))

(***************************************************************************)
(* normalizeCode (Editor.js, lines 23-28)                                  *)
(***************************************************************************)

BlockOpen == <<"/", "*">>
BlockClose == <<"*", "/">>
LineOpen == <<"/", "/">>

\* the position just after the match of "//.*" that starts at i
EndOfLineComment(s, i) ==
  LET ends == {j \in (i + 2)..Len(s) : IsLineTerminator(s[j])}
  IN  IF ends = {} THEN Len(s) + 1 ELSE CHOOSE j \in ends : \A k \in ends : j <= k

\* whether /\/\*[\s\S]*?\*\/|\/\/.*/ matches at position i
CommentAt(s, i) ==
  \/ StartsWithAt(s, BlockOpen, i) /\ IndexOfFrom(s, BlockClose, i + 2) # 0
  \/ StartsWithAt(s, LineOpen, i)

\* the position just after the match at i: the first alternative is tried
\* first, and its lazy body stops at the nearest close
EndOfComment(s, i) ==
  IF StartsWithAt(s, BlockOpen, i) /\ IndexOfFrom(s, BlockClose, i + 2) # 0
  THEN IndexOfFrom(s, BlockClose, i + 2) + 2
  ELSE EndOfLineComment(s, i)

\* code.replace(/\/\*[\s\S]*?\*\/|\/\/.*/g, ''), scanning from position i:
\* the text up to the next match is kept, the match is dropped
RECURSIVE RemoveComments(_, _)
RemoveComments(s, i) ==
  LET starts == {j \in i..Len(s) : CommentAt(s, j)}
  IN  IF starts = {} THEN Slice(s, i)
      ELSE LET j == CHOOSE j \in starts : \A k \in starts : j <= k
           IN  SubSeq(s, i, j - 1) \o RemoveComments(s, EndOfComment(s, j))

\* noComments.replace(/\s+/g, ' '): of every run of white space the first
\* character stays, as a blank
CollapseSpaces(s) ==
  LET marked == [i \in 1..Len(s) |->
                   [ch |-> IF IsSpace(s[i]) THEN " " ELSE s[i],
                    keep |-> \/ ~IsSpace(s[i])
                             \/ i = 1
                             \/ ~IsSpace(s[i - 1])]]
      IsKept(m) == m.keep
      kept == SelectSeq(marked, IsKept)
  IN  [k \in 1..Len(kept) |-> kept[k].ch]

\* the three steps of normalizeCode in their order
NormalForm(s) == Trim(CollapseSpaces(RemoveComments(s, 1)))

(***************************************************************************)
(* Fence extraction (route POST, lines 38-45 of the route file; the same   *)
(* statements in the direct-client generateCode, Editor.js 478-485)        *)
(***************************************************************************)

\* SANY does not lex a backquote inside a string: the character U+0060 is
\* written Backtick
Backtick == "BACKTICK"

Fence == <<Backtick, Backtick, Backtick>>
TagLine == <<"j", "a", "v", "a", "s", "c", "r", "i", "p", "t", "\n">>

\* generatedCode.includes(Fence)
IncludesFence(s) == IndexOfFrom(s, Fence, 1) # 0

\* s.split(Fence), scanning from position i: a segment ends at the next
\* occurrence of the separator, and the scan resumes after it
RECURSIVE SplitFrom(_, _)
SplitFrom(s, i) ==
  LET j == IndexOfFrom(s, Fence, i)
  IN  IF j = 0 THEN <<Slice(s, i)>>
      ELSE <<SubSeq(s, i, j - 1)>> \o SplitFrom(s, j + Len(Fence))

SplitFences(s) == SplitFrom(s, 1)

\* the filter with the parity wrong: the blocks outside the fences are kept
KeepUnfenced(blocks) ==
  [k \in 1..((Len(blocks) + 1) \div 2) |-> blocks[2 * k - 1]]

\* .filter((block, index) => index % 2 === 1); index is 0-based, so the
\* kept blocks are those at the even 1-based positions
KeepFenced(blocks) ==
  [k \in 1..(Len(blocks) \div 2) |-> blocks[2 * k]]

\* .join('\n')
RECURSIVE JoinFrom(_, _)
JoinFrom(blocks, k) ==
  IF k > Len(blocks) THEN <<>>
  ELSE IF k = Len(blocks) THEN blocks[k]
  ELSE blocks[k] \o <<"\n">> \o JoinFrom(blocks, k + 1)

JoinLines(blocks) == JoinFrom(blocks, 1)

\* .replace(/^javascript\n/m, ''): not global, so only the first match goes;
\* under /m "^" matches at the start and after every line terminator
StripTag(s) ==
  LET hits == {i \in 1..Len(s) :
                 /\ StartsWithAt(s, TagLine, i)
                 /\ (i = 1 \/ IsLineTerminator(s[i - 1]))}
  IN  IF hits = {} THEN s
      ELSE LET p == CHOOSE i \in hits : \A k \in hits : i <= k
           IN  SubSeq(s, 1, p - 1) \o Slice(s, p + Len(TagLine))

\* the whole post-processing of the vendor's reply
extractCode(text) ==
  IF IncludesFence(text)
  THEN Trim(StripTag(JoinLines(KeepFenced(SplitFences(text)))))
  ELSE text

(***************************************************************************)
(* getIframeContent (Editor.js, lines 30-84): a fixed document with the    *)
(* sketch embedded verbatim between a head and a tail.                     *)
(***************************************************************************)

DocHead == "<!DOCTYPE html>...// User code"
DocTail == "</script></body></html>"

getIframeContent(userCode) == <<DocHead, userCode, DocTail>>

\* the sketch a preview document embeds
EmbeddedCode(doc) == doc[2]

(***************************************************************************)
(* The Editor component: its constants and the values the inputs are       *)
(* drawn from.                                                             *)
(***************************************************************************)

INITIAL_CODE ==
  <<"f", "u", "n", "c", "t", "i", "o", "n", " ", "s", "e", "t", "u", "p", "(", ")",
     " ", "{", "\n", " ", " ", "c", "r", "e", "a", "t", "e", "C", "a", "n", "v", "a",
     "s", "(", "4", "0", "0", ",", " ", "4", "0", "0", ")", ";", "\n", "}", "\n", "\n",
     "f", "u", "n", "c", "t", "i", "o", "n", " ", "d", "r", "a", "w", "(", ")", " ",
     "{", "\n", " ", " ", "b", "a", "c", "k", "g", "r", "o", "u", "n", "d", "(", "2",
     "2", "0", ")", ";", "\n", " ", " ", "e", "l", "l", "i", "p", "s", "e", "(", "m",
     "o", "u", "s", "e", "X", ",", " ", "m", "o", "u", "s", "e", "Y", ",", " ", "5",
     "0", ",", " ", "5", "0", ")", ";", "\n", "}">>

\* the <option> values of the model selector
ModelFlash ==
  <<"g", "e", "m", "i", "n", "i", "-", "2", ".", "0", "-", "f", "l", "a", "s", "h">>
ModelPro ==
  <<"g", "e", "m", "i", "n", "i", "-", "2", ".", "0", "-", "p", "r", "o", "-", "e",
     "x", "p", "-", "0", "2", "-", "0", "5">>
ModelThinking ==
  <<"g", "e", "m", "i", "n", "i", "-", "2", ".", "0", "-", "f", "l", "a", "s", "h",
     "-", "t", "h", "i", "n", "k", "i", "n", "g", "-", "e", "x", "p", "-", "0", "1",
     "-", "2", "1">>
Models == {ModelFlash, ModelPro, ModelThinking}

Thinking ==
  <<"t", "h", "i", "n", "k", "i", "n", "g">>

\* temperatures are counted in tenths: 1 is 10 and 0.7 is 7
DefaultTenths == 10
ThinkingTenths == 7

\* a temperature the state holds: the number a model selection set, or the
\* string the number input delivered
NumberTemp(t) == [kind |-> "number", tenths |-> t]
StringTemp(t) == [kind |-> "string", tenths |-> t]
\* parseFloat(temperature)
parseFloat(t) == t.tenths

\* what the user types into the editor, the prompt and the temperature field
SketchA ==
  <<"c", "i", "r", "c", "l", "e", "(", "9", ")">>
EditorValues ==
  { INITIAL_CODE \o <<"\n", "/", "/", "x">>,
    SketchA,
    <<"\f">> \o SketchA \o <<NBSP, "/", "*", "x", "*", "/">> }
Prompts == {"", "draw a red circle"}
\* the number input: min 0, max 2, step 0.1
TypedTenths == 0..20

\* what the vendor answers: a fenced reply, a bare reply that differs from
\* the fenced one's code only by a comment, and a failure
VendorReplies ==
  { <<Backtick, Backtick, Backtick, "j", "a", "v", "a", "s", "c", "r", "i", "p", "t", "\n", "c", "i",
     "r", "c", "l", "e", "(", "9", ")", "\n", Backtick, Backtick, Backtick>>,
    <<"\f">> \o SketchA \o <<NBSP, "/", "*", "x", "*", "/">> }
VendorMessages == {"quota exceeded"}
Outcomes ==
  [kind : {"text"}, text : VendorReplies, message : {""}]
    \cup [kind : {"vendorError"}, text : {<<>>}, message : VendorMessages]
    \cup [kind : {"networkError"}, text : {<<>>}, message : {""}]

\* the sources the editor starts with and is given by typing; the replies
\* of the vendor hold two of them
EditorSources == {INITIAL_CODE} \cup EditorValues

\* each of them with its normal form, computed once
NormalForms == {<<c, NormalForm(c)>> : c \in EditorSources}

\* the two replacements without the final trim()
normalizeCodeUntrimmed(code) == CollapseSpaces(RemoveComments(code, 1))

\* normalizeCode (Editor.js, lines 23-28)
normalizeCode(code) ==
  IF code \in EditorSources
  THEN (CHOOSE p \in NormalForms : p[1] = code)[2]
  ELSE NormalForm(code)

\* cap on the generation requests in flight plus the re-schedule timers pending
MaxOutstanding == 2

\* cap on the queued state updates a continuation or a timer callback may
\* find waiting when it adds its own
MaxPending == 1

(***************************************************************************)
(* State of the mounted Editor.  Every action is one event-loop task.  A   *)
(* handler of a user event is rendered, with the effects of that render,   *)
(* in its own task; a state update issued by an effect, by a continuation  *)
(* after an await or by a timer callback is queued and rendered in a later *)
(* task, or together with the updates of a user event that comes first.    *)
(* The effects of a render that no user event caused run in a task after   *)
(* the one that rendered, or at the start of the next render if that comes *)
(* first; timers, continuations and user events can run in between.        *)
(* A handler reads the state of the render that created it; a              *)
(* continuation after an await and a timer callback read the state their   *)
(* closure captured when it was created.                                   *)
(***************************************************************************)
VARIABLES
  variant,         \* which Editor is built: "normalizing" (lines 1-316) or "direct"
  code,            \* useState: the sketch source
  normalizedCode,  \* useState: the change-detection key (normalizing Editor)
  prompt,          \* useState
  selectedModel,   \* useState
  temperature,     \* useState
  isGenerating,    \* useState
  autoSave,        \* useState
  autoGenerate,    \* useState
  pending,         \* the state updates queued and not rendered yet
  passive,         \* while the effects of the last render have not run:
                   \* the dependencies the render before it had
  srcdoc,          \* iframeRef.current.srcdoc
  inflight,        \* generateCode calls suspended at an await
  genTimers,       \* generateCode closures a pending setTimeout will call
  saveTimer,       \* the pending auto-save setTimeout, if any, with the
                   \* code its handleSaveCode closure captured
  effects,         \* what the last task did to the outside world
  bridge,          \* the types of the messages queued for the preview
                   \* frame and for the host window
  extraction,      \* a vendor reply under post-processing, taken alone
  normalization,   \* a source under normalizeCode, taken alone
  route            \* a request in the route's POST handler, taken alone

vars == <<variant, code, normalizedCode, prompt, selectedModel, temperature,
          isGenerating, autoSave, autoGenerate, pending, passive, srcdoc,
          inflight, genTimers, saveTimer, effects, bridge, extraction,
          normalization, route>>

build == <<variant, extraction, normalization, route>>
settings == <<prompt, selectedModel, temperature>>
preview == <<code, normalizedCode, srcdoc, saveTimer>>
generation == <<isGenerating, inflight, genTimers>>

NoEffects ==
  [fetches |-> 0, reply |-> "none", srcdocWrites |-> 0,
   screenshot |-> FALSE, download |-> <<>>, png |-> FALSE,
   frame |-> "none", canvas |-> FALSE, posted |-> FALSE]

\* the state a generateCode closure captures (its useCallback dependencies)
Closure ==
  [isGenerating |-> isGenerating, prompt |-> prompt,
   selectedModel |-> selectedModel, temperature |-> temperature,
   autoGenerate |-> autoGenerate]

\* the body of the request a closure sends
RequestOf(c) ==
  [prompt |-> c.prompt, modelName |-> c.selectedModel,
   temperature |-> parseFloat(c.temperature)]

RemoveAt(s, i) == SubSeq(s, 1, i - 1) \o SubSeq(s, i + 1, Len(s))

(***************************************************************************)
(* Rendering                                                               *)
(***************************************************************************)

\* a call of a useState setter: the state it belongs to and its argument
Update(var, value) == [var |-> var, value |-> value]

\* the state of the last render
Rendered ==
  [code |-> code, normalizedCode |-> normalizedCode, prompt |-> prompt,
   selectedModel |-> selectedModel, temperature |-> temperature,
   isGenerating |-> isGenerating, autoSave |-> autoSave,
   autoGenerate |-> autoGenerate]

\* the state st after the queued updates us, in the order they were issued
RECURSIVE ApplyUpdates(_, _)
ApplyUpdates(st, us) ==
  IF us = <<>> THEN st
  ELSE ApplyUpdates([st EXCEPT ![Head(us).var] = Head(us).value], Tail(us))

\* selectedModel.includes('thinking')
IsThinking(m) == IndexOfFrom(m, Thinking, 1) # 0

\* the values the effects of a render depend on
DepsOf(st) ==
  [code |-> st.code, normalizedCode |-> st.normalizedCode,
   autoSave |-> st.autoSave, selectedModel |-> st.selectedModel]

\* the dependencies of the committed render
Deps == DepsOf(Rendered)

\* the effect that depends on selectedModel, run after a render with model
\* m that follows a render with the dependencies prev: its setTemperature
\* is queued
TemperatureEffect(prev, m) ==
  IF m # prev.selectedModel
  THEN <<Update("temperature", IF IsThinking(m) THEN NumberTemp(ThinkingTenths)
                               ELSE NumberTemp(DefaultTenths))>>
  ELSE <<>>

(***************************************************************************)
(* Preview refresh                                                         *)
(***************************************************************************)

\* updatePreview without setNormalizedCode: the key is never stored
updatePreviewKeepingKey(v, c, n, doc) ==
  IF v = "normalizing"
  THEN IF normalizeCode(c) # n
       THEN [normalizedCode |-> n, srcdoc |-> getIframeContent(c), writes |-> 1]
       ELSE [normalizedCode |-> n, srcdoc |-> doc, writes |-> 0]
  ELSE [normalizedCode |-> n, srcdoc |-> getIframeContent(c), writes |-> 1]

\* updatePreview called with code c while the state holds the key n and the
\* frame holds doc; normalizedCode is the argument of its setNormalizedCode,
\* or n when it makes no such call
updatePreview(v, c, n, doc) ==
  IF v = "normalizing"
  THEN LET newNormalizedCode == normalizeCode(c)
       IN  IF newNormalizedCode # n
           THEN [normalizedCode |-> newNormalizedCode,
                 srcdoc |-> getIframeContent(c), writes |-> 1]
           ELSE [normalizedCode |-> n, srcdoc |-> doc, writes |-> 0]
  ELSE [normalizedCode |-> n, srcdoc |-> getIframeContent(c), writes |-> 1]

\* the effect with the timer armed only when the frame was reloaded
PreviewEffectSavingOnReload(v, c, n, doc, as, w) ==
  LET r == updatePreview(v, c, n, doc)
  IN  [sets |-> IF r.normalizedCode # n
                THEN <<Update("normalizedCode", r.normalizedCode)>> ELSE <<>>,
       srcdoc |-> r.srcdoc, writes |-> w + r.writes,
       saveTimer |-> IF as /\ w + r.writes > 0 THEN <<[code |-> c]>> ELSE <<>>]

\* one run of the "update preview when code changes" effect, after a render
\* with code c, key n and auto-save flag as; React clears the previous run's
\* timer first.  The setNormalizedCode of updatePreview is queued: the
\* render it causes, and the run of the effect after that render, come in a
\* later task.
PreviewEffect(v, c, n, doc, as, w) ==
  LET r == updatePreview(v, c, n, doc)
  IN  [sets |-> IF r.normalizedCode # n
                THEN <<Update("normalizedCode", r.normalizedCode)>> ELSE <<>>,
       srcdoc |-> r.srcdoc, writes |-> w + r.writes,
       saveTimer |-> IF as THEN <<[code |-> c]>> ELSE <<>>]

\* the preview effect after the render of the state st that follows a render
\* with the dependencies prev, with the frame and the timer at fr: the
\* effect runs when one of its dependencies changed
Rerender(prev, st, fr) ==
  IF \/ st.code # prev.code
     \/ st.normalizedCode # prev.normalizedCode
     \/ st.autoSave # prev.autoSave
  THEN PreviewEffect(variant, st.code, st.normalizedCode, fr.srcdoc,
                     st.autoSave, fr.writes)
  ELSE [sets |-> <<>>, srcdoc |-> fr.srcdoc, writes |-> fr.writes,
        saveTimer |-> fr.saveTimer]

\* the effects of the render of st, in the order they are declared: the
\* temperature effect, then the preview effect; the updates they issue are
\* queued
RunEffects(prev, st, fr) ==
  LET r == Rerender(prev, st, fr)
  IN  [r EXCEPT !.sets = TemperatureEffect(prev, st.selectedModel) \o r.sets]

\* before React renders again, the effects of the committed render run if
\* they have not run yet; the frame is at doc after w assignments
FlushPassive(doc, w) ==
  LET fr == [srcdoc |-> doc, writes |-> w, saveTimer |-> saveTimer]
  IN  IF passive # <<>>
      THEN RunEffects(passive[1], Rendered, fr)
      ELSE [sets |-> <<>>, srcdoc |-> doc, writes |-> w,
            saveTimer |-> saveTimer]

\* the render of a user event's handler: the effects still due run first,
\* the queued updates and the updates us of the handler are applied
\* together, and the effects of the new render run in the same task; the
\* updates they issue are queued.  The handler has left the frame at doc
\* after w assignments; fx is what else the task did.
Render(us, doc, w, fx) ==
  \E f \in {FlushPassive(doc, w)} :
  \E st \in {ApplyUpdates(Rendered, pending \o us \o f.sets)} :
  \E r \in {RunEffects(Deps, st, [srcdoc |-> f.srcdoc, writes |-> f.writes,
                                  saveTimer |-> f.saveTimer])} :
    /\ code' = st.code
    /\ normalizedCode' = st.normalizedCode
    /\ prompt' = st.prompt
    /\ selectedModel' = st.selectedModel
    /\ temperature' = st.temperature
    /\ isGenerating' = st.isGenerating
    /\ autoSave' = st.autoSave
    /\ autoGenerate' = st.autoGenerate
    /\ pending' = r.sets
    /\ passive' = <<>>
    /\ srcdoc' = r.srcdoc
    /\ saveTimer' = r.saveTimer
    /\ effects' = [fx EXCEPT !.srcdocWrites = r.writes]

\* a task that sets no state: nothing is rendered
NoRender(fx) ==
  /\ effects' = fx
  /\ UNCHANGED <<code, normalizedCode, settings, isGenerating, autoSave,
                 autoGenerate, pending, passive, srcdoc, saveTimer>>

\* React renders and commits the queued updates in a task of its own, after
\* the effects still due; the effects of this render run in a later task
ReactRenders ==
  /\ pending # <<>>
  /\ \E f \in {FlushPassive(srcdoc, 0)} :
     \E st \in {ApplyUpdates(Rendered, pending \o f.sets)} :
       /\ code' = st.code
       /\ normalizedCode' = st.normalizedCode
       /\ prompt' = st.prompt
       /\ selectedModel' = st.selectedModel
       /\ temperature' = st.temperature
       /\ isGenerating' = st.isGenerating
       /\ autoSave' = st.autoSave
       /\ autoGenerate' = st.autoGenerate
       /\ pending' = <<>>
       /\ passive' = IF DepsOf(st) = Deps THEN <<>> ELSE <<Deps>>
       /\ srcdoc' = f.srcdoc
       /\ saveTimer' = f.saveTimer
       /\ effects' = [NoEffects EXCEPT !.srcdocWrites = f.writes]
  /\ UNCHANGED <<build, bridge, inflight, genTimers>>

\* the effects of the last render run, after the browser has painted
EffectsRun ==
  /\ passive # <<>>
  /\ \E r \in {FlushPassive(srcdoc, 0)} :
       /\ pending' = pending \o r.sets
       /\ passive' = <<>>
       /\ srcdoc' = r.srcdoc
       /\ saveTimer' = r.saveTimer
       /\ effects' = [NoEffects EXCEPT !.srcdocWrites = r.writes]
  /\ UNCHANGED <<build, bridge, code, normalizedCode, settings, isGenerating,
                 autoSave, autoGenerate, inflight, genTimers>>

NoExtraction == [stage |-> "none", text |-> <<>>, code |-> <<>>]
NoNormalization ==
  [stage |-> "none", input |-> <<>>, output |-> <<>>, again |-> <<>>]
NoRoute == [stage |-> "none"]

\* no message queued in either direction
NoMessages == [toFrame |-> {}, toHost |-> {}]

EditorInit ==
  /\ variant \in {"normalizing", "direct"}
  /\ code = INITIAL_CODE
  /\ normalizedCode = normalizeCode(INITIAL_CODE)
  /\ prompt = ""
  /\ selectedModel = ModelFlash
  /\ temperature = NumberTemp(DefaultTenths)
  /\ isGenerating = FALSE
  /\ autoSave = FALSE
  /\ autoGenerate = FALSE
  /\ pending = <<>>
  /\ passive = <<>>
  /\ srcdoc = getIframeContent(INITIAL_CODE)
  /\ inflight = <<>>
  /\ genTimers = <<>>
  /\ saveTimer = <<>>
  /\ effects = [NoEffects EXCEPT !.srcdocWrites = 1]
  /\ bridge = NoMessages

Init ==
  /\ EditorInit
  /\ extraction = NoExtraction
  /\ normalization = NoNormalization
  /\ route = NoRoute

(***************************************************************************)
(* The editor widget                                                       *)
(***************************************************************************)

\* CodeMirror onChange: setCode(value), and in the normalizing Editor a call
\* of the last render's updatePreview, which still sees the old code and the
\* old key; the handler's updates are rendered in its task
Edit(value) ==
  LET stale == IF variant = "normalizing"
               THEN updatePreview(variant, code, normalizedCode, srcdoc)
               ELSE [normalizedCode |-> normalizedCode, srcdoc |-> srcdoc,
                     writes |-> 0]
      us == <<Update("code", value)>> \o
            (IF stale.normalizedCode # normalizedCode
             THEN <<Update("normalizedCode", stale.normalizedCode)>>
             ELSE <<>>)
  IN  /\ Render(us, stale.srcdoc, stale.writes, NoEffects)
      /\ UNCHANGED <<build, bridge, inflight, genTimers>>

(***************************************************************************)
(* Generation                                                              *)
(***************************************************************************)

\* generateCode up to its first await, run by the closure c: the state
\* updates it issues and the requests it sends
generateCode(c) ==
  IF c.isGenerating
  THEN [sets |-> <<>>, requests |-> <<>>]
  ELSE [sets |-> <<Update("isGenerating", TRUE)>>,
        requests |-> <<[closure |-> c, stage |-> "fetch"]>>]

\* generateCode called by the handler of a user event
Generate ==
  LET g == generateCode(Closure)
  IN  /\ inflight' = inflight \o g.requests
      /\ IF g.sets = <<>>
         THEN NoRender(NoEffects)
         ELSE Render(g.sets, srcdoc, 0,
                     [NoEffects EXCEPT !.fetches = Len(g.requests)])

\* the Generate button (disabled while isGenerating)
ClickGenerate ==
  /\ Len(inflight) + Len(genTimers) < MaxOutstanding
  /\ Generate
  /\ UNCHANGED <<build, bridge, genTimers>>

\* handleKeyPress with e.key = 'Enter'
PressEnter ==
  /\ Len(inflight) + Len(genTimers) < MaxOutstanding
  /\ IF ~isGenerating
     THEN Generate
     ELSE NoRender(NoEffects) /\ UNCHANGED inflight
  /\ UNCHANGED <<build, bridge, genTimers>>

\* the callback of the setTimeout generateCode armed: the same closure
\* again; its setIsGenerating(true) is queued
GenTimerFires(j) ==
  LET g == generateCode(genTimers[j])
  IN  /\ Len(pending) < MaxPending
      /\ genTimers' = RemoveAt(genTimers, j)
      /\ inflight' = inflight \o g.requests
      /\ pending' = pending \o g.sets
      /\ effects' = [NoEffects EXCEPT !.fetches = Len(g.requests)]
      /\ UNCHANGED <<build, bridge, code, normalizedCode, settings,
                     isGenerating, autoSave, autoGenerate, passive, srcdoc,
                     saveTimer>>

\* the handler with the catch clause answering without { status: 500 }
POSTDefaultStatus(o) ==
  IF o.kind = "text"
  THEN [status |-> 200, body |-> [code |-> extractCode(o.text)]]
  ELSE [status |-> 200, body |-> [error |-> o.message]]

\* the route's POST handler, given what the vendor call did
POST(o) ==
  IF o.kind = "text"
  THEN [status |-> 200, body |-> [code |-> extractCode(o.text)]]
  ELSE [status |-> 500, body |-> [error |-> o.message]]

\* the await without the data.error check: an error payload has no code,
\* and the source is set to nothing
AwaitedIgnoringError(v, o) ==
  IF o.kind = "text"
  THEN [kind |-> "code", code |-> extractCode(o.text)]
  ELSE IF v = "normalizing" /\ o.kind = "vendorError"
       THEN [kind |-> "code", code |-> <<>>]
       ELSE [kind |-> "thrown", code |-> <<>>]

\* what the awaits in generateCode yield: "code" with the code to set, or
\* "thrown"
Awaited(v, o) ==
  IF v = "normalizing"
  THEN IF o.kind = "networkError"
       THEN [kind |-> "thrown", code |-> <<>>]
       ELSE LET data == POST(o).body
            IN  IF "error" \in DOMAIN data /\ data.error # ""
                THEN [kind |-> "thrown", code |-> <<>>]
                ELSE [kind |-> "code", code |-> data.code]
  ELSE IF o.kind = "text"
       THEN [kind |-> "code", code |-> extractCode(o.text)]
       ELSE [kind |-> "thrown", code |-> <<>>]

\* the flag cleared at the end of the try block only
AfterTryOnly(a) ==
  IF a.kind = "code" THEN <<Update("isGenerating", FALSE)>> ELSE <<>>

\* the end of the try statement whose awaits yielded a: the finally clause
\* issues setIsGenerating(false)
AfterFinally(a) == <<Update("isGenerating", FALSE)>>

\* generateCode after its last await, for the call inflight[i] answered by
\* o: its state updates are queued, its timer is armed at once
Settle(i, o) ==
  LET c == inflight[i].closure
      a == Awaited(variant, o)
  IN  /\ Len(pending) < MaxPending
      /\ inflight' = RemoveAt(inflight, i)
      /\ pending' = pending \o
                    (IF a.kind = "code" THEN <<Update("code", a.code)>>
                                        ELSE <<>>) \o
                    AfterFinally(a)
      /\ genTimers' = IF a.kind = "code" /\ c.autoGenerate
                      THEN Append(genTimers, c) ELSE genTimers
      /\ effects' = [NoEffects EXCEPT !.reply = o.kind]
      /\ UNCHANGED <<build, bridge, code, normalizedCode, settings,
                     isGenerating, autoSave, autoGenerate, passive, srcdoc,
                     saveTimer>>

\* the normalizing Editor's await of fetch settles with a response for the
\* call inflight[i]: the call suspends again at response.json()
Responds(i) ==
  /\ variant = "normalizing"
  /\ inflight[i].stage = "fetch"
  /\ inflight' = [inflight EXCEPT ![i].stage = "json"]
  /\ effects' = NoEffects
  /\ UNCHANGED <<build, bridge, code, normalizedCode, settings, isGenerating,
                 autoSave, autoGenerate, pending, passive, srcdoc, saveTimer, genTimers>>

\* the last await of the call inflight[i] settles with o.  In the direct
\* Editor that is the vendor call.  In the normalizing Editor it is
\* response.json(), which yields the payload of the route or is rejected
\* (a network error), or the fetch itself when it is rejected.
Resolve(i, o) ==
  /\ variant = "normalizing" /\ inflight[i].stage = "fetch"
       => o.kind = "networkError"
  /\ Settle(i, o)

(***************************************************************************)
(* Controls                                                                *)
(***************************************************************************)

\* the Auto-generate button / checkbox
ToggleAutoGenerate ==
  /\ Render(<<Update("autoGenerate", ~autoGenerate)>>, srcdoc, 0, NoEffects)
  /\ UNCHANGED <<build, bridge, inflight, genTimers>>

\* the Auto-save button / checkbox: autoSave is a dependency of the preview
\* effect, so the effect runs again
ToggleAutoSave ==
  /\ Render(<<Update("autoSave", ~autoSave)>>, srcdoc, 0, NoEffects)
  /\ UNCHANGED <<build, bridge, inflight, genTimers>>

\* the prompt input's onChange
SetPrompt(p) ==
  /\ Render(<<Update("prompt", p)>>, srcdoc, 0, NoEffects)
  /\ UNCHANGED <<build, bridge, inflight, genTimers>>

\* the model selector's onChange
SelectModel(m) ==
  /\ Render(<<Update("selectedModel", m)>>, srcdoc, 0, NoEffects)
  /\ UNCHANGED <<build, bridge, inflight, genTimers>>

\* the temperature input's onChange: setTemperature(e.target.value)
EditTemperature(t) ==
  /\ Render(<<Update("temperature", StringTemp(t))>>, srcdoc, 0, NoEffects)
  /\ UNCHANGED <<build, bridge, inflight, genTimers>>

(***************************************************************************)
(* Saving                                                                  *)
(***************************************************************************)

\* handleScreenshot: a takeScreenshot message is queued for the frame.  The
\* queues keep which types of message are waiting, not how many of each.
handleScreenshot(b) == [b EXCEPT !.toFrame = @ \cup {"takeScreenshot"}]

\* the callback of the auto-save setTimeout: handleScreenshot() and the
\* handleSaveCode of the render that armed it
SaveTimerFires ==
  /\ saveTimer # <<>>
  /\ saveTimer' = <<>>
  /\ bridge' = handleScreenshot(bridge)
  /\ effects' = [NoEffects EXCEPT !.screenshot = TRUE,
                                  !.download = <<saveTimer[1].code>>]
  /\ UNCHANGED <<build, code, normalizedCode, srcdoc, settings, autoSave,
                 autoGenerate, generation, pending, passive>>

\* the Save Screenshot button: handleScreenshot
ClickSaveScreenshot ==
  /\ bridge' = handleScreenshot(bridge)
  /\ effects' = [NoEffects EXCEPT !.screenshot = TRUE]
  /\ UNCHANGED <<build, settings, autoSave, autoGenerate, preview, generation,
                 pending, passive>>

\* the Save Code button: handleSaveCode
ClickSaveCode ==
  /\ effects' = [NoEffects EXCEPT !.download = <<code>>]
  /\ UNCHANGED <<build, bridge, settings, autoSave, autoGenerate, preview,
                 generation, pending, passive>>

(***************************************************************************)
(* The screenshot bridge: the frame's message listener (lines 69-77) and   *)
(* the host's (lines 197-209).  A queue keeps the types of the messages    *)
(* waiting in it; a delivery may leave further messages of its type.       *)
(***************************************************************************)

\* another script posts a message of a type neither listener knows
OtherMessage(target) ==
  /\ bridge' = IF target = "frame"
               THEN [bridge EXCEPT !.toFrame = @ \cup {"other"}]
               ELSE [bridge EXCEPT !.toHost = @ \cup {"other"}]
  /\ effects' = NoEffects
  /\ UNCHANGED <<build, settings, autoSave, autoGenerate, preview, generation,
                 pending, passive>>

\* the frame's listener posting a result whether or not a canvas exists
FrameReceivesWithoutCanvasCheck(m, canvas, more) ==
  /\ m \in bridge.toFrame
  /\ bridge' = [toFrame |-> IF more THEN bridge.toFrame
                            ELSE bridge.toFrame \ {m},
                toHost |-> IF m = "takeScreenshot"
                           THEN bridge.toHost \cup {"screenshot"}
                           ELSE bridge.toHost]
  /\ effects' = [NoEffects EXCEPT !.frame = m, !.canvas = canvas,
                                  !.posted = (m = "takeScreenshot")]
  /\ UNCHANGED <<build, settings, autoSave, autoGenerate, preview, generation,
                 pending, passive>>

\* the frame's listener is delivered a message of type m while
\* document.querySelector('canvas') finds a canvas or not
FrameReceives(m, canvas, more) ==
  /\ m \in bridge.toFrame
  /\ bridge' = [toFrame |-> IF more THEN bridge.toFrame
                            ELSE bridge.toFrame \ {m},
                toHost |-> IF m = "takeScreenshot" /\ canvas
                           THEN bridge.toHost \cup {"screenshot"}
                           ELSE bridge.toHost]
  /\ effects' = [NoEffects EXCEPT !.frame = m, !.canvas = canvas,
                                  !.posted = (m = "takeScreenshot" /\ canvas)]
  /\ UNCHANGED <<build, settings, autoSave, autoGenerate, preview, generation,
                 pending, passive>>

\* handleMessage: the host is delivered a message of type m; a screenshot
\* result is downloaded as a PNG
HostReceives(m, more) ==
  /\ m \in bridge.toHost
  /\ bridge' = [bridge EXCEPT !.toHost = IF more THEN @ ELSE @ \ {m}]
  /\ effects' = [NoEffects EXCEPT !.png = (m = "screenshot")]
  /\ UNCHANGED <<build, settings, autoSave, autoGenerate, preview, generation,
                 pending, passive>>

\* The editor with its settings left alone: prompt, selectedModel and
\* temperature are read by no guard and only copied into the closures.
Next ==
  \/ \E value \in EditorValues : Edit(value)
  \/ ClickGenerate
  \/ PressEnter
  \/ \E j \in 1..Len(genTimers) : GenTimerFires(j)
  \/ \E i \in 1..Len(inflight) : Responds(i)
  \/ \E i \in 1..Len(inflight) : \E o \in Outcomes : Resolve(i, o)
  \/ ReactRenders
  \/ EffectsRun
  \/ ToggleAutoGenerate
  \/ ToggleAutoSave
  \/ SaveTimerFires

Spec == Init /\ [][Next]_vars

\* The settings alone: every render but that of setTemperature is caused by
\* a user event, and that one changes no dependency of an effect.
NextSettings ==
  \/ \E p \in Prompts : SetPrompt(p)
  \/ \E m \in Models : SelectModel(m)
  \/ \E t \in TypedTenths : EditTemperature(t)
  \/ ReactRenders

SpecSettings == Init /\ [][NextSettings]_vars

\* The prompt and the generation requests that carry it, with the editor
\* widget and the auto-save left alone.
NextRequests ==
  \/ \E p \in Prompts : SetPrompt(p)
  \/ ClickGenerate
  \/ PressEnter
  \/ \E j \in 1..Len(genTimers) : GenTimerFires(j)
  \/ \E i \in 1..Len(inflight) : Responds(i)
  \/ \E i \in 1..Len(inflight) : \E o \in Outcomes : Resolve(i, o)
  \/ ReactRenders
  \/ EffectsRun
  \/ ToggleAutoGenerate

SpecRequests == Init /\ [][NextRequests]_vars

(***************************************************************************)
(* The post-processing of a vendor reply on its own: the replies are all   *)
(* the texts of at most MaxTokens pieces, and the reply of the fence       *)
(* example.                                                                *)
(***************************************************************************)

MaxTokens == 5

Pieces == {Fence, <<Backtick>>, TagLine, <<"\n">>, <<" ">>, <<"\f">>, <<"a">>}

RECURSIVE Flatten(_)
Flatten(ps) == IF ps = <<>> THEN <<>> ELSE Head(ps) \o Flatten(Tail(ps))

ExampleReply ==
  Fence \o TagLine \o <<"f", "o", "o", "(", ")", "\n">> \o Fence

Replies ==
  {Flatten(ps) : ps \in UNION {[1..n -> Pieces] : n \in 0..MaxTokens}}
    \cup {ExampleReply}

InitFence ==
  /\ EditorInit
  /\ extraction \in [stage : {"received"}, text : Replies, code : {<<>>}]
  /\ normalization = NoNormalization
  /\ route = NoRoute

\* lines 38-45 of the route (Editor.js 478-485) applied to the reply
Extract ==
  /\ extraction.stage = "received"
  /\ extraction' = [stage |-> "extracted", text |-> extraction.text,
                    code |-> extractCode(extraction.text)]
  /\ UNCHANGED <<variant, settings, autoSave, autoGenerate, preview,
                 generation, pending, passive, effects, bridge, normalization, route>>

NextFence == Extract

SpecFence == InitFence /\ [][NextFence]_vars

\* The save buttons and the auto-save of the Editor, the frame and the
\* host's listener.
NextBridge ==
  \/ ClickSaveScreenshot
  \/ ClickSaveCode
  \/ ToggleAutoSave
  \/ SaveTimerFires
  \/ \E target \in {"frame", "host"} : OtherMessage(target)
  \/ \E m \in bridge.toFrame : \E canvas, more \in BOOLEAN :
       FrameReceives(m, canvas, more)
  \/ \E m \in bridge.toHost : \E more \in BOOLEAN : HostReceives(m, more)

SpecBridge == Init /\ [][NextBridge]_vars

(***************************************************************************)
(* normalizeCode on its own: the sources are all the strings of at most    *)
(* MaxSource characters over comment markers, white space and a letter.    *)
(***************************************************************************)

MaxSource == 6

SourceChars == {"/", "*", " ", "\n", "\f", "a"}

Sources == UNION {[1..n -> SourceChars] : n \in 0..MaxSource}

InitNormalize ==
  /\ EditorInit
  /\ extraction = NoExtraction
  /\ route = NoRoute
  /\ normalization \in [stage : {"received"}, input : Sources,
                        output : {<<>>}, again : {<<>>}]

\* normalizeCode(code), as in updatePreview
Normalize ==
  /\ normalization.stage = "received"
  /\ normalization' = [normalization EXCEPT
                         !.stage = "normalized",
                         !.output = normalizeCode(normalization.input)]
  /\ UNCHANGED <<variant, settings, autoSave, autoGenerate, preview,
                 generation, pending, passive, effects, bridge, extraction, route>>

\* normalizeCode applied to its own result
NormalizeAgain ==
  /\ normalization.stage = "normalized"
  /\ normalization' = [normalization EXCEPT
                         !.stage = "renormalized",
                         !.again = normalizeCode(normalization.output)]
  /\ UNCHANGED <<variant, settings, autoSave, autoGenerate, preview,
                 generation, pending, passive, effects, bridge, extraction, route>>

NextNormalize == Normalize \/ NormalizeAgain

SpecNormalize == InitNormalize /\ [][NextNormalize]_vars

(***************************************************************************)
(* The route's POST handler on its own (route, lines 13-52): the request   *)
(* body is read, the chat session is started and the prompt sent, and the  *)
(* vendor's answer or failure is turned into the response.                 *)
(***************************************************************************)

\* what request.json() yields: the fields of the body, or a parse failure
RouteRequests ==
  [kind : {"json"}, prompt : Prompts, modelName : {ModelFlash},
   temperature : {DefaultTenths}, message : {""}]
    \cup [kind : {"malformed"}, prompt : {""}, modelName : {<<>>},
          temperature : {0}, message : {"Unexpected end of JSON input"}]

\* what the vendor call does: a reply text, or a thrown error
RouteOutcomes ==
  [kind : {"text"}, text : Replies, message : {""}]
    \cup [kind : {"vendorError"}, text : {<<>>}, message : VendorMessages]

NoOutcome == [kind |-> "none", text |-> <<>>, message |-> ""]
NoResponse == [status |-> 0, body |-> <<>>]

\* the history startChat is given: one user turn holding the prompt
History(p) == <<[role |-> "user", text |-> p]>>

\* chatSession.sendMessage(text): the vendor is sent the session's history
\* followed by text as a user turn
sendMessage(history, text) == Append(history, [role |-> "user", text |-> text])

InitRoute ==
  /\ EditorInit
  /\ extraction = NoExtraction
  /\ normalization = NoNormalization
  /\ route \in [stage : {"request"}, request : RouteRequests, sent : {<<>>},
                vendor : {NoOutcome}, response : {NoResponse}]

\* lines 14-35: the body is read; a failure is caught and answered, otherwise
\* the session is started and the prompt sent
RouteCalls ==
  /\ route.stage = "request"
  /\ route' =
       IF route.request.kind = "malformed"
       THEN [route EXCEPT
               !.stage = "answered",
               !.response = [status |-> 500,
                             body |-> [error |-> route.request.message]]]
       ELSE [route EXCEPT
               !.stage = "awaiting",
               !.sent = sendMessage(History(route.request.prompt),
                                    route.request.prompt)]
  /\ UNCHANGED <<variant, settings, autoSave, autoGenerate, preview,
                 generation, pending, passive, effects, bridge, extraction, normalization>>

\* lines 35-51: the vendor call returns or throws
RouteAnswers ==
  /\ route.stage = "awaiting"
  /\ \E o \in RouteOutcomes :
       route' = [route EXCEPT !.stage = "answered", !.vendor = o,
                              !.response = POST(o)]
  /\ UNCHANGED <<variant, settings, autoSave, autoGenerate, preview,
                 generation, pending, passive, effects, bridge, extraction, normalization>>

NextRoute ==
  \/ RouteCalls
  \/ RouteAnswers

SpecRoute == InitRoute /\ [][NextRoute]_vars

(***************************************************************************)
(* Fence extraction, stated without split, filter and join: a scanner that *)
(* toggles at every marker and copies what it reads inside a fence.        *)
(***************************************************************************)

\* markers: the markers met from position i on; text: the fenced bodies in
\* order, a newline between one body and the next
RECURSIVE FenceScan(_, _, _, _, _)
FenceScan(s, i, inside, markers, text) ==
  IF i > Len(s) THEN [markers |-> markers, text |-> text]
  ELSE IF StartsWithAt(s, Fence, i)
       THEN FenceScan(s, i + 3, ~inside, markers + 1,
                      IF ~inside /\ markers >= 2 THEN Append(text, "\n")
                                                 ELSE text)
  ELSE FenceScan(s, i + 1, inside, markers,
                 IF inside THEN Append(text, s[i]) ELSE text)

MarkerCount(s) == FenceScan(s, 1, FALSE, 0, <<>>).markers
FencedBodies(s) == FenceScan(s, 1, FALSE, 0, <<>>).text

\* y is x without its leading and trailing white space
IsTrimOf(y, x) ==
  \/ y = <<>> /\ \A k \in 1..Len(x) : IsSpace(x[k])
  \/ \E i \in 1..Len(x) : \E j \in i..Len(x) :
       /\ y = SubSeq(x, i, j)
       /\ ~IsSpace(x[i]) /\ ~IsSpace(x[j])
       /\ \A k \in 1..Len(x) : (k < i \/ k > j) => IsSpace(x[k])

Extracted == extraction.stage = "extracted"
EvenFences(s) == MarkerCount(s) > 0 /\ MarkerCount(s) % 2 = 0

\* C9 as stated: a reply with an even, non-zero number of fence markers yields
\* exactly the fenced bodies, in order, joined by a newline and trimmed.
C9_BodiesJoinedTrimmed ==
  (Extracted /\ EvenFences(extraction.text))
    => IsTrimOf(extraction.code, FencedBodies(extraction.text))

\* C9 amended: a reply with an even, non-zero number of fence markers yields
\* the fenced bodies, in order, joined by a newline, without the first
\* "javascript" line of that text, trimmed; nothing outside the fences is
\* returned, and the reply of the example yields foo().
C9_BodiesJoinedUntaggedTrimmed ==
  /\ (Extracted /\ EvenFences(extraction.text))
       => IsTrimOf(extraction.code, StripTag(FencedBodies(extraction.text)))
  /\ (Extracted /\ extraction.text = ExampleReply)
       => extraction.code = <<"f", "o", "o", "(", ")">>

\* C9 witness: a reply that opens with text outside its fences and whose
\* fenced text lost its tag line came back
C9_Witness ==
  /\ Extracted
  /\ EvenFences(extraction.text)
  /\ extraction.text[1] = "a"
  /\ StripTag(FencedBodies(extraction.text)) # FencedBodies(extraction.text)
  /\ extraction.code = <<"a">>

\* C10: a reply without a fence marker is returned trimmed of its leading and
\* trailing white space.
C10_UnfencedTrimmed ==
  (Extracted /\ MarkerCount(extraction.text) = 0)
    => IsTrimOf(extraction.code, extraction.text)

\* s without a "javascript" line at its very start
StripLeadingTag(s) ==
  IF StartsWithAt(s, TagLine, 1) THEN Slice(s, Len(TagLine) + 1) ELSE s

\* C18: the code returned for a reply with paired fences is the joined
\* fenced text, trimmed, from which a "javascript" line was removed only if
\* it was the first line; every later line is returned as it was.
C18_OnlyLeadingTagStripped ==
  (Extracted /\ EvenFences(extraction.text))
    => IsTrimOf(extraction.code,
                StripLeadingTag(FencedBodies(extraction.text)))

Answered == route.stage = "answered"
OddFences(s) == MarkerCount(s) % 2 = 1

\* C11: a vendor reply with an odd number of fence markers is answered with
\* an error payload and a failure status, never with a code string.
C11_OddFencesRejected ==
  (Answered /\ route.vendor.kind = "text" /\ OddFences(route.vendor.text))
    => /\ DOMAIN route.response.body = {"error"}
       /\ route.response.status # 200

(***************************************************************************)
(* Generation: single flight, the auto-generate loop, failures             *)
(***************************************************************************)

Normalizing == variant = "normalizing"

\* C1: at most one generation request is in flight at any time.
C1_SingleFlight == Len(inflight) <= 1

\* C2: while auto-generate is and stays switched off, no step arms a
\* re-schedule timer, so that the loop ends with the step that was pending
\* when the mode was switched off.
C2_LoopEndsWhenOff ==
  [][(~autoGenerate /\ ~autoGenerate')
       => Len(genTimers') <= Len(genTimers)]_vars

\* C5: the task that handles a failed generation leaves the source, the
\* stored key and the frame as they are, assigns no srcdoc, issues no
\* request, arms no timer, and queues no state update but the clearing of
\* the flag.
C5_FailureKeepsState ==
  [][effects'.reply \in {"vendorError", "networkError"}
       => /\ code' = code
          /\ normalizedCode' = normalizedCode
          /\ srcdoc' = srcdoc
          /\ effects'.srcdocWrites = 0
          /\ effects'.fetches = 0
          /\ genTimers' = genTimers
          /\ pending' = Append(pending, Update("isGenerating", FALSE))
          /\ Len(inflight') = Len(inflight) - 1]_vars

\* C5 witness: a request of the auto-generate loop failed after the source
\* had been replaced, and nothing is scheduled
C5_Witness ==
  /\ effects.reply = "vendorError"
  /\ Normalizing
  /\ autoGenerate
  /\ code = SketchA
  /\ pending = <<Update("isGenerating", FALSE)>>
  /\ inflight = <<>>
  /\ genTimers = <<>>

\* the step rendered the updates that were queued
Flushed ==
  ~(Len(pending') >= Len(pending) /\ SubSeq(pending', 1, Len(pending)) = pending)

\* C6: whenever a request resolves, however it ended, the task that
\* handles it issues setIsGenerating(false) as its last state update; and
\* the render of a queue that ends with that update, in a task that starts
\* no generation, leaves isGenerating false.
C6_FlagReleased ==
  /\ [][Len(inflight') < Len(inflight)
          => /\ pending' # <<>>
             /\ pending'[Len(pending')] = Update("isGenerating", FALSE)]_vars
  /\ [][(/\ pending # <<>>
          /\ pending[Len(pending)] = Update("isGenerating", FALSE)
          /\ Flushed
          /\ effects'.fetches = 0)
          => ~isGenerating']_vars

\* C6 witness: the direct-client Editor handled a failure, and the clearing
\* of the flag that is still up is queued
C6_Witness ==
  /\ variant = "direct"
  /\ effects.reply = "networkError"
  /\ isGenerating
  /\ pending = <<Update("isGenerating", FALSE)>>

\* C7: a generation that completes successfully while auto-generate is on
\* arms exactly one re-schedule timer, and a generation that fails arms none.
C7_RescheduleAfterSuccess ==
  [][/\ (effects'.reply = "text" /\ autoGenerate)
          => Len(genTimers') = Len(genTimers) + 1
     /\ effects'.reply \in {"vendorError", "networkError"}
          => genTimers' = genTimers]_vars

(***************************************************************************)
(* Preview and auto-save                                                   *)
(***************************************************************************)

\* C3: in the normalizing Editor a change of the source to one whose
\* normalized form is that of the source in the frame assigns no srcdoc.
\* It fails for an edit that comes while the key of the source before it
\* is queued and not stored yet.
C3_NoReloadOnCosmeticChange ==
  [][(/\ Normalizing
      /\ code' # code
      /\ normalizeCode(code') = normalizeCode(EmbeddedCode(srcdoc)))
       => effects'.srcdocWrites = 0 /\ srcdoc' = srcdoc]_vars

\* the frame after the source c was rendered over the document doc: the
\* document of c if its normalized form differs from that of the source in
\* doc, and doc otherwise
Fresh(doc, c) ==
  IF normalizeCode(c) # normalizeCode(EmbeddedCode(doc))
  THEN getIframeContent(c)
  ELSE doc

\* C4: in the normalizing Editor, when the effects of the last render have
\* run and no state update is queued, the stored key is the normalized form
\* of the source in the frame and of the current source; after every task
\* that leaves no effect due the frame holds the document of the last
\* rendered source whose normalized form differed from that of the source
\* rendered before it; and a task that leaves effects due leaves the frame
\* without the source of the last render: it has run the effects that were
\* due before it rendered, or has left the frame as it was.
C4_PreviewFresh ==
  /\ []((Normalizing /\ pending = <<>> /\ passive = <<>>)
          => /\ normalizedCode = normalizeCode(EmbeddedCode(srcdoc))
             /\ normalizedCode = normalizeCode(code)
             /\ srcdoc = getIframeContent(EmbeddedCode(srcdoc)))
  /\ [][(Normalizing /\ passive' = <<>>)
          => srcdoc' = Fresh(Fresh(srcdoc, code), code')]_vars
  /\ [][(Normalizing /\ passive' # <<>>)
          => srcdoc' = IF passive # <<>> /\ passive' # passive
                       THEN Fresh(srcdoc, code)
                       ELSE srcdoc]_vars

\* C4 witness: the frame was reloaded for an edit and then kept through a
\* cosmetic one
C4_Witness ==
  /\ Normalizing
  /\ passive = <<>>
  /\ srcdoc = getIframeContent(SketchA)
  /\ code # SketchA
  /\ pending = <<>>
  /\ normalizedCode = normalizeCode(SketchA)
  /\ effects.srcdocWrites = 0

\* C8: while auto-save stays on, a task that changes the source leaves the
\* effect of the change due or has run it, and a task that has run the
\* effect of a change, its own or a due one, leaves the auto-save timer
\* pending for the new source, reload or not; and while auto-save stays on
\* and the source stays the same, the pending timer ends only by firing,
\* which requests a screenshot and downloads the source the timer was armed
\* for, the current one when no effect is due.
C8_AutoSaveFollowsChange ==
  /\ [][(autoSave /\ autoSave' /\ code' # code /\ passive' # <<>>)
          => passive'[1].code = code]_vars
  /\ [][(/\ autoSave /\ autoSave' /\ passive' = <<>>
         /\ \/ code' # code
            \/ passive # <<>> /\ passive[1].code # code)
          => saveTimer' = <<[code |-> code']>>]_vars
  /\ [][(saveTimer # <<>> /\ saveTimer' = <<>> /\ autoSave' /\ code' = code)
          => /\ effects'.screenshot
             /\ effects'.download = <<saveTimer[1].code>>
             /\ passive = <<>> => effects'.download = <<code>>]_vars

\* C8 witness: the auto-save fired for a source that the frame was not
\* reloaded for
C8_Witness ==
  /\ Normalizing
  /\ autoSave
  /\ effects.screenshot
  /\ effects.download = <<code>>
  /\ code # EmbeddedCode(srcdoc)

(***************************************************************************)
(* The normalizer                                                          *)
(***************************************************************************)

HasLineComment(s) ==
  \E i \in 1..(Len(s) - 1) : s[i] = "/" /\ s[i + 1] = "/"

HasBlockComment(s) ==
  \E i \in 1..(Len(s) - 3) : \E j \in (i + 2)..(Len(s) - 1) :
    /\ s[i] = "/" /\ s[i + 1] = "*"
    /\ s[j] = "*" /\ s[j + 1] = "/"

HasSpaceRun(s) ==
  \E i \in 1..(Len(s) - 1) : IsSpace(s[i]) /\ IsSpace(s[i + 1])

HasOuterSpace(s) == s # <<>> /\ (IsSpace(s[1]) \/ IsSpace(s[Len(s)]))

\* C12: the normalized form of any source holds no line comment, no complete
\* block comment, no run of white space and no white space at its ends, and
\* normalizing it again gives it back.
C12_NormalFormClean ==
  /\ normalization.stage \in {"normalized", "renormalized"}
       => /\ ~HasLineComment(normalization.output)
          /\ ~HasBlockComment(normalization.output)
          /\ ~HasSpaceRun(normalization.output)
          /\ ~HasOuterSpace(normalization.output)
  /\ normalization.stage = "renormalized"
       => normalization.again = normalization.output

\* C12 witness: an unterminated block comment followed by a line comment
\* was normalized twice
C12_Witness ==
  /\ normalization.stage = "renormalized"
  /\ normalization.input = <<"/", "*", "/", "/", "a">>
  /\ normalization.output = <<"/", "*">>
  /\ normalization.again = <<"/", "*">>

(***************************************************************************)
(* Settings                                                                *)
(***************************************************************************)

\* C13: a step that changes the selected model leaves the temperature at 0.7
\* if the new model is the thinking one and at 1 otherwise, and a step that
\* types a temperature leaves the selected model as it is.  It fails in
\* its first part: the selection leaves the temperature as it was, and the
\* default is set by a later render.
C13_ModelSwitchDefault ==
  [][/\ selectedModel' # selectedModel
          => temperature' = IF selectedModel' = ModelThinking
                            THEN [kind |-> "number", tenths |-> 7]
                            ELSE [kind |-> "number", tenths |-> 10]
     /\ (temperature' # temperature /\ temperature'.kind = "string")
          => selectedModel' = selectedModel]_vars

(***************************************************************************)
(* The route's answers                                                     *)
(***************************************************************************)

\* C14: every request is answered either with {code} and status 200, when
\* the vendor call returned, or with {error: message} and status 500, when
\* reading the request or calling the vendor threw; never with both fields.
C14_OnePayload ==
  Answered
    => IF route.vendor.kind = "text"
       THEN /\ route.response.status = 200
            /\ DOMAIN route.response.body = {"code"}
       ELSE /\ route.response.status = 500
            /\ DOMAIN route.response.body = {"error"}
            /\ route.response.body.error =
                 IF route.request.kind = "malformed"
                 THEN route.request.message
                 ELSE route.vendor.message

\* C14 witness: a vendor failure was answered with its message and status 500
C14_Witness ==
  /\ Answered
  /\ route.request.kind = "json"
  /\ route.vendor.kind = "vendorError"
  /\ route.response = [status |-> 500, body |-> [error |-> "quota exceeded"]]

\* C20: the conversation delivered to the vendor for a request is one user
\* turn holding the request's prompt, with no turn before it.
C20_SingleTurn ==
  (route.stage \in {"awaiting", "answered"} /\ route.request.kind = "json")
    => route.sent = <<[role |-> "user", text |-> route.request.prompt]>>

(***************************************************************************)
(* Generation requests and the settings                                    *)
(***************************************************************************)

\* C15: every step that issues a generation request issues it with the
\* prompt, the model and the temperature the state holds at that step.
C15_RequestCarriesCurrentSettings ==
  [][Len(inflight') > Len(inflight)
       => RequestOf(inflight'[Len(inflight')].closure) =
            [prompt |-> prompt, modelName |-> selectedModel,
             temperature |-> temperature.tenths]]_vars

\* C16: isGenerating is true in every state in which a generation request is
\* in flight, here taken in the states in which no state update is queued
\* and no effect is due.
C16_FlagTracksRequests ==
  (pending = <<>> /\ passive = <<>> /\ Len(inflight) > 0) => isGenerating

(***************************************************************************)
(* Auto-save debounce                                                      *)
(***************************************************************************)

\* C17: a pending auto-save timer exists only while auto-save is on, is the
\* only one and, once the effects of the last render have run, is for the
\* current source; the task in which it fires runs with auto-save on,
\* downloads the current source and leaves none pending.  It fails in the
\* download: a timer armed before a generated source was rendered fires
\* before the effects of that render have cancelled it, and downloads the
\* source it was armed for.
C17_AutoSaveDebounced ==
  /\ [](saveTimer # <<>>
          => /\ autoSave
             /\ Len(saveTimer) = 1
             /\ passive = <<>> => saveTimer[1].code = code)
  /\ [][(effects'.screenshot /\ effects'.download # <<>>)
          => /\ autoSave
             /\ effects'.download = <<code>>
             /\ code' = code
             /\ saveTimer' = <<>>]_vars

(***************************************************************************)
(* The screenshot bridge                                                   *)
(***************************************************************************)

\* C19: the frame posts a screenshot result only in a task that handles a
\* takeScreenshot message and finds a canvas, and a result reaches the
\* host's queue only that way; the host downloads a PNG only in a task that
\* is delivered a result; a takeScreenshot handled without a canvas posts
\* nothing and downloads nothing, and a further request can be sent.
C19_ScreenshotBridge ==
  /\ [][/\ effects'.posted
             => /\ effects'.frame = "takeScreenshot"
                /\ effects'.canvas
                /\ "takeScreenshot" \in bridge.toFrame
        /\ ("screenshot" \in bridge'.toHost /\ "screenshot" \notin bridge.toHost)
             => effects'.posted
        /\ effects'.png => "screenshot" \in bridge.toHost
        /\ (effects'.frame = "takeScreenshot" /\ ~effects'.canvas)
             => /\ ~effects'.posted
                /\ ~effects'.png
                /\ bridge'.toHost = bridge.toHost]_vars
  /\ []((effects.frame = "takeScreenshot" /\ ~effects.canvas)
          => ENABLED ClickSaveScreenshot)

\* C19 witness: a request was handled by a frame without a canvas, nothing
\* waits for the host, and the next request is queued already
C19_Witness ==
  /\ effects.frame = "takeScreenshot"
  /\ ~effects.canvas
  /\ ~effects.posted
  /\ bridge.toHost = {}
  /\ bridge.toFrame = {"takeScreenshot"}

====
